---- MODULE Spec2Model ----
(***************************************************************************)
(* Model of the vibesync audio-reactive visualizer: the Crowd impulse      *)
(* envelope, the Terrain history buffer, the Orb central shape and the     *)
(* frame capture controller (RecorderController) with the App state that   *)
(* feeds it.                                                               *)
(*                                                                         *)
(* Numbers that are IEEE doubles in the source are modelled as exact       *)
(* fixed-point rationals: every quantity is an integer count of a unit     *)
(* chosen so that all values the model reaches are whole.                  *)
(***************************************************************************)
EXTENDS Integers, Sequences, FiniteSets, TLC

VARIABLES
    dataArray,      \* the mounted renderer's Uint8Array frequency snapshot
    bounceValues,   \* VisualizerCrowd state {bass, snare, high}, in units of 1/One
    envHold,        \* envelope run: the snapshot held during the run
    envHeld,        \* envelope run: frames of the held snapshot fed so far
    envDropped,     \* envelope run: frames fed since the input dropped
    envBefore,      \* envelope run: the impulses before the run's last frame
    groupRef,       \* VisualizerTerrain: the group ref is attached
    rowData,        \* VisualizerTerrain history buffer [row][sample]
    linePositions,  \* VisualizerTerrain: the y of every line vertex [row][sample]
    terrainFrames,  \* VisualizerTerrain: frames run since mount
    runBase,        \* terrain run: the byte the run's snapshots start from
    sphereRef,      \* VisualizerOrb: the central sphere ref is attached
    sphereScale,    \* VisualizerOrb: sphereRef.current.scale.x, in units of 1/ScaleOne
    barScale,       \* VisualizerOrb: scale.y of every inner-ring bar, in units of 1/ScaleOne
    orbFed,         \* VisualizerOrb: the bass byte of every frame fed so far
    isRecording,    \* App state: recording is armed
    visualizerMode, \* App state: the selected mode
    isMuted,        \* App state: the gain is muted
    mediaRecorderRef, \* RecorderController: the stored encoder, NoEncoder for null
    chunksRef,      \* RecorderController: the buffered segments, in arrival order
    encoders,       \* every MediaRecorder constructed so far, by number
    downloads,      \* every download triggered so far, in order
    lastStep,       \* the handler that ran last and the effect branches it ran
    detachedChunks, \* chunksRef of every unmounted controller instance, by instance
    appState,       \* App state: IDLE, ANALYZING, READY or VISUALIZING
    audioFile,      \* App state: a file is selected
    analyser,       \* App state: the analyser node is set
    analyzeTimers,  \* timeouts of handleFileSelect not yet fired
    startedCalls,   \* startVisualizer calls made so far
    pendingDecodes, \* startVisualizer calls awaiting decodeAudioData
    sources,        \* every AudioBufferSourceNode created so far: playing or stopped
    sourceNodeRef,  \* App ref: the stored source, NoSource for null
    alerts,         \* alert() dialogs shown so far
    mountedRenderers, \* the renderers VisualizerScene has mounted
    vp9Supported,   \* MediaRecorder.isTypeSupported('video/webm;codecs=vp9') in this browser
    randomSeed,     \* the state of Math.random() when VisualizerCrowd first renders
    characters,     \* VisualizerCrowd: the memoized cast, <<>> before the first render
    figures,        \* Character: what each figure's last frame computed, by cast index
    binCount,       \* analyser.frequencyBinCount, the length of a frequency snapshot
    frameReads,     \* the band and bar reads of the last frame: renderer, index -> value
    vertexReads,    \* the reads of the last frame that fill a line: vertex -> index, value
    wallSample,     \* VisualizerWall: the last fragment evaluated, inputs and output
    wallEarlier,    \* VisualizerWall: the fragment evaluated before that one
    uniformTime,    \* VisualizerWall: uniforms.time.value, in thousandths
    uniformBass,    \* VisualizerWall: uniforms.bass.value, in units of 1/ScaleOne
    wallFrames      \* VisualizerWall: frames run since mount

crowdVars == <<bounceValues>>
envVars == <<envHold, envHeld, envDropped, envBefore>>
terrainVars == <<groupRef, rowData, linePositions, terrainFrames, runBase>>
orbVars == <<sphereRef, sphereScale, barScale, orbFed>>

audioVars == <<audioFile, analyser, analyzeTimers, startedCalls, pendingDecodes,
               sources, sourceNodeRef, alerts>>
appVars == <<isRecording, visualizerMode, isMuted, appState, mountedRenderers, audioVars>>
recorderVars == <<mediaRecorderRef, chunksRef, encoders, downloads, lastStep, detachedChunks>>
browserVars == <<vp9Supported>>
castVars == <<randomSeed, characters, figures>>
readVars == <<binCount, frameReads, vertexReads>>
wallVars == <<wallSample, wallEarlier, uniformTime, uniformBass, wallFrames>>

vars == <<dataArray, crowdVars, envVars, terrainVars, orbVars, appVars, recorderVars, browserVars, castVars, readVars, wallVars>>

Max(a, b) == IF a >= b THEN a ELSE b
Min(a, b) == IF a <= b THEN a ELSE b

(***************************************************************************)
(* Analyzer: fftSize 2048 gives frequencyBinCount 1024 byte magnitudes.    *)
(***************************************************************************)
FftSize == 2048
FrequencyBinCount == FftSize \div 2
Bins == 0 .. (FrequencyBinCount - 1)

\* new Uint8Array(analyser.frequencyBinCount): all zero
EmptyData == [i \in Bins |-> 0]

\* A snapshot written by getByteFrequencyData: the bass bins [0,10) hold lo,
\* the mid bins [10,200) hold mid and the bins from 200 on hold hi.
Snapshot(lo, mid, hi) ==
    [i \in Bins |-> IF i < 10 THEN lo ELSE IF i < 200 THEN mid ELSE hi]

\* sum of dataArray[i] for from <= i < to, as the for loops accumulate it
RECURSIVE SumBins(_, _, _)
SumBins(d, from, to) ==
    IF from >= to THEN 0 ELSE d[from] + SumBins(d, from + 1, to)

(***************************************************************************)
(* Crowd cast (VisualizerCrowd.characters).  Math.random() is a generator  *)
(* over the hundredths 0.00 .. 0.99: a draw advances its state and returns *)
(* state / RandomModulus, so a seed fixes every draw of one construction.  *)
(***************************************************************************)
ROW_COUNT == 7
COL_COUNT == 14
SPACING_X == 14     \* 1.4, in tenths
SPACING_Z == 14     \* 1.4, in tenths

HairStyles == <<"spiky", "bob", "buns", "cap">>
HairColors == <<"#2c1810", "#4a3020", "#f59e0b", "#000000", "#881337">>
BassColors == <<"#dc2626", "#1d4ed8", "#15803d", "#b91c1c">>
SnareColors == <<"#f59e0b", "#9333ea", "#d97706", "#7c3aed">>
HighColors == <<"#f472b6", "#22d3ee", "#a78bfa", "#fbbf24">>

RandomModulus == 100
RandomSeeds == 0 .. (RandomModulus - 1)

RandomStep == 37

\* the generator state after one more draw
NextRandom(s) == (s + RandomStep) % RandomModulus

\* the generator state after k more draws
RandomAfter(s, k) == (s + k * RandomStep) % RandomModulus

\* every cell makes four draws: rand, shirt colour, hair style, hair colour
DrawsPerCell == 4

\* list[Math.floor(Math.random() * list.length)] for the draw s / RandomModulus
Pick(list, s) == list[(s * Len(list)) \div RandomModulus + 1]

\* rand > 0.66 snare, else rand > 0.33 bass, else high
ReactivityOf(s) ==
    IF s * 100 > 66 * RandomModulus THEN "snare"
    ELSE IF s * 100 > 33 * RandomModulus THEN "bass"
    ELSE "high"

PaletteOf(reactivity) ==
    CASE reactivity = "snare" -> SnareColors
      [] reactivity = "bass" -> BassColors
      [] OTHER -> HighColors

CharacterIdRowOnly(x, z) == ToString(z) \o "-" \o ToString(z)

\* the template literal `${x}-${z}`
CharacterId(x, z) == ToString(x) \o "-" \o ToString(z)

\* the object pushed for grid cell (x, z); s is the generator state before its
\* first draw.  x and z are in tenths, delay in fortieths of a second.
NewCharacter(x, z, s) ==
    LET r1 == NextRandom(s)
        r2 == NextRandom(r1)
        r3 == NextRandom(r2)
        r4 == NextRandom(r3)
    IN  [id |-> CharacterId(x, z),
         x |-> ((2 * x - COL_COUNT) * SPACING_X) \div 2
               + (IF z % 2 = 0 THEN 0 ELSE SPACING_X \div 2),
         z |-> 0 - z * SPACING_Z,
         color |-> Pick(PaletteOf(ReactivityOf(r1)), r2),
         reactivity |-> ReactivityOf(r1),
         delay |-> z * 4 + (IF 2 * x >= COL_COUNT THEN 2 * x - COL_COUNT ELSE COL_COUNT - 2 * x),
         hairStyle |-> Pick(HairStyles, r3),
         hairColor |-> Pick(HairColors, r4)]

\* the inner loop over x for row z; s is the generator state it starts from
BuildRow(z, s) ==
    [c \in 1 .. COL_COUNT |-> NewCharacter(c - 1, z, RandomAfter(s, DrawsPerCell * (c - 1)))]

\* the outer loop over z, from row z on
RECURSIVE BuildRows(_, _)
BuildRows(z, s) ==
    IF z >= ROW_COUNT THEN <<>>
    ELSE BuildRow(z, s) \o BuildRows(z + 1, RandomAfter(s, DrawsPerCell * COL_COUNT))

\* useMemo(() => { ... return chars; }, [])
Characters(seed) == BuildRows(0, seed)

\* seed of the cast the frame-driven specifications run with
DefaultSeed == 0

(***************************************************************************)
(* The state each component is constructed in.                             *)
(***************************************************************************)
Bands == {"bass", "snare", "high"}

\* useState({ bass: 0, snare: 0, high: 0 })
CrowdInitState ==
    bounceValues = [b \in Bands |-> 0]

\* no envelope run is being driven
EnvInitState ==
    /\ envHold = EmptyData
    /\ envHeld = 0
    /\ envDropped = 0
    /\ envBefore = [b \in Bands |-> 0]

ROWS == 45
SAMPLES == 80

\* Array(ROWS).fill(0).map(() => Array(SAMPLES).fill(0))
EmptyRows == [i \in 0 .. (ROWS - 1) |-> [j \in 0 .. (SAMPLES - 1) |-> 0]]

\* the group is committed before the first frame runs
TerrainInitState ==
    /\ groupRef = TRUE
    /\ rowData = EmptyRows
    /\ linePositions = EmptyRows
    /\ terrainFrames = 0
    /\ runBase = 0

\* the fixed-point image of scale 1.0, the scale a mesh is created with
ScaleOne == 100000000

\* const barCount = 64
\* const barCount = 64
OrbBarCount == 64

\* Math.floor((i / barCount) * 40)
OrbBarIndex(i) == (i * 40) \div OrbBarCount

\* the sphere and bar meshes are committed before the first frame runs
OrbInitState ==
    /\ sphereRef = TRUE
    /\ sphereScale = ScaleOne
    /\ barScale = [i \in 0 .. (OrbBarCount - 1) |-> ScaleOne]
    /\ orbFed = <<>>

\* the fixed-point image of 1.0 for a figure's bounce and scale: 160 times
\* the impulse unit, so that delay * 0.15 and half a stretch are whole
FigureUnit == 92400000

\* a figure whose group has just been created: scale (1, 1, 1), no bounce
MountedFigure ==
    [effectiveBounce |-> 0, squash |-> 0, scaleY |-> FigureUnit, scaleXZ |-> FigureUnit]

\* VisualizerCrowd has rendered once: the cast is built and mounted
CastInitState ==
    /\ randomSeed = DefaultSeed
    /\ characters = Characters(DefaultSeed)
    /\ figures = [i \in 1 .. (ROW_COUNT * COL_COUNT) |-> MountedFigure]

\* no frame has read the snapshot yet; the App's analyser has fftSize 2048
NoReads == [by |-> "none", values |-> <<>>]
NoVertexReads == [by |-> "none", length |-> 0, reads |-> <<>>]
ReadInitState ==
    /\ binCount = FrequencyBinCount
    /\ frameReads = NoReads
    /\ vertexReads = NoVertexReads

\* no fragment has been evaluated yet
NoSample == [in |-> <<>>, out |-> 0]
\* uniforms: { time: { value: 0 }, bass: { value: 0 } }
WallInitState ==
    /\ wallSample = NoSample
    /\ wallEarlier = NoSample
    /\ uniformTime = 0
    /\ uniformBass = 0
    /\ wallFrames = 0

NoEncoder == 0
NoSource == 0

\* appState === AppState.VISUALIZING && analyser: Visualizer3D is rendered
Mounted(state, anal) == state = "VISUALIZING" /\ anal

\* the conditional children of VisualizerScene
SceneBranches ==
    {[mode |-> "ORB", renderer |-> "VisualizerOrb"],
     [mode |-> "TERRAIN", renderer |-> "VisualizerTerrain"],
     [mode |-> "PARTY", renderer |-> "VisualizerCrowd"],
     [mode |-> "WALL", renderer |-> "VisualizerWall"]}

\* the scene with the Orb rendered whatever the mode
SceneChildrenOrbAlways(mode) ==
    {b.renderer : b \in {x \in SceneBranches : x.mode = mode \/ x.mode = "ORB"}}

\* mode === VisualizerMode.X && <RendererX />, for each of the four
SceneChildren(mode) ==
    {b.renderer : b \in {x \in SceneBranches : x.mode = mode}}

\* the browser the other components are exercised in supports VP9
BrowserInitState == vp9Supported = TRUE

\* The App as the visualizer is first shown: a file was selected, one
\* startVisualizer call decoded it and started the loop, nothing was toggled.
\* RecorderController: useRef(null), useRef([]), and its effect has run once
\* on mount with isRecording false
SessionInitState(mode) ==
    /\ isRecording = FALSE
    /\ visualizerMode = mode
    /\ isMuted = FALSE
    /\ appState = "VISUALIZING"
    /\ audioFile = TRUE
    /\ analyser = TRUE
    /\ analyzeTimers = 0
    /\ startedCalls = 1
    /\ pendingDecodes = 0
    /\ sources = <<"playing">>
    /\ sourceNodeRef = 1
    /\ alerts = 0
    /\ mountedRenderers = SceneChildren(mode)
    /\ detachedChunks = <<>>
    /\ mediaRecorderRef = NoEncoder
    /\ chunksRef = <<>>
    /\ encoders = <<>>
    /\ downloads = <<>>
    /\ lastStep = [handler |-> "mount", effects |-> <<"stopNoop">>, onStop |-> FALSE]

\* useState<VisualizerMode>(VisualizerMode.ORB): the session starts on the Orb
RecorderInitState == SessionInitState("ORB")

(***************************************************************************)
(* Terrain history buffer (VisualizerTerrain).                             *)
(***************************************************************************)
\* Math.sin((j / (SAMPLES - 1)) * Math.PI) in thousandths, j = 0 .. 79
Window ==
    << 0, 40, 79, 119, 158, 198, 236, 275, 313, 350,
       387, 424, 459, 494, 528, 562, 594, 626, 656, 686,
       714, 741, 767, 792, 816, 838, 859, 879, 897, 914,
       929, 943, 956, 967, 976, 984, 990, 995, 998, 1000,
       1000, 998, 995, 990, 984, 976, 967, 956, 943, 929,
       914, 897, 879, 859, 838, 816, 792, 767, 741, 714,
       686, 656, 626, 594, 562, 528, 494, 459, 424, 387,
       350, 313, 275, 236, 198, 158, 119, 79, 40, 0 >>

\* Math.floor((dataArray.length * 0.6) / SAMPLES)
FrequencyStep(d) == (Cardinality(DOMAIN d) * 6) \div (10 * SAMPLES)

\* the new front row: (rawValue / 255.0) * 10.0 * window, in units of
\* 10 / (255 * 1000)
FrontRow(d) ==
    [j \in 0 .. (SAMPLES - 1) |-> d[j * FrequencyStep(d)] * Window[j + 1]]

\* the shift loop run with i ascending: row 0 smears into every row
ShiftHistoryAscending(rows) ==
    [i \in 0 .. (ROWS - 1) |-> rows[0]]

\* for (i = ROWS - 1; i > 0; i--) rowData[i][j] = rowData[i - 1][j]
ShiftHistory(rows) ==
    [i \in 0 .. (ROWS - 1) |-> IF i > 0 THEN rows[i - 1] ELSE rows[0]]

\* the frame without its shift: only the front row is written
TerrainUpdateNoShift(rows, d) ==
    [rows EXCEPT ![0] = FrontRow(d)]

\* step 4 of the frame: currentY + (targetY - currentY) * 0.4 for every
\* vertex of every line, targetY the history value of its row and sample
LineUpdate(positions, rows) ==
    [i \in 0 .. (ROWS - 1) |->
        [j \in 0 .. (SAMPLES - 1) |->
            positions[i][j] + ((rows[i][j] - positions[i][j]) * 4) \div 10]]

\* steps 2 and 3 of the frame: shift the history, then write the front row
TerrainUpdate(rows, d) ==
    [ShiftHistory(rows) EXCEPT ![0] = FrontRow(d)]

MaxTerrainFrames == 6
TerrainBytes == {0, 128, 255}
\* bin i holds b below bin 300 and 255 - b from there on
TerrainSnapshots == {[i \in Bins |-> IF i < 300 THEN b ELSE 255 - b] : b \in TerrainBytes}

\* one Terrain frame on a snapshot of the analyzer
TerrainFrame ==
    /\ groupRef
    /\ terrainFrames < MaxTerrainFrames
    /\ \E d \in TerrainSnapshots :
        /\ dataArray' = d
        /\ rowData' = TerrainUpdate(rowData, d)
    /\ linePositions' = LineUpdate(linePositions, rowData')
    /\ terrainFrames' = terrainFrames + 1
    /\ UNCHANGED <<groupRef, runBase, crowdVars, envVars, orbVars, appVars, recorderVars, browserVars, castVars, readVars, wallVars>>

InitTerrain ==
    /\ dataArray = EmptyData
    /\ CrowdInitState
    /\ EnvInitState
    /\ TerrainInitState
    /\ OrbInitState
    /\ RecorderInitState
    /\ BrowserInitState
    /\ CastInitState
    /\ ReadInitState
    /\ WallInitState

NextTerrain == TerrainFrame

SpecTerrain == InitTerrain /\ [][NextTerrain]_vars

(***************************************************************************)
(* Terrain run: every frame is fed a snapshot different from all earlier   *)
(* ones, for more than ROWS frames.                                        *)
(***************************************************************************)
MaxRunFrames == 48
RunBases == {0, 100, 200}

\* the snapshot of frame k of the run: bin i holds (base + k + i) mod 256
RunSnapshot(base, k) == [i \in Bins |-> (base + k + i) % 256]

InitTerrainRun ==
    /\ dataArray = EmptyData
    /\ CrowdInitState
    /\ EnvInitState
    /\ groupRef = TRUE
    /\ rowData = EmptyRows
    /\ linePositions = EmptyRows
    /\ terrainFrames = 0
    /\ runBase \in RunBases
    /\ OrbInitState
    /\ RecorderInitState
    /\ BrowserInitState
    /\ CastInitState
    /\ ReadInitState
    /\ WallInitState

TerrainRunFrame ==
    /\ groupRef
    /\ terrainFrames < MaxRunFrames
    /\ dataArray' = RunSnapshot(runBase, terrainFrames + 1)
    /\ rowData' = TerrainUpdate(rowData, dataArray')
    /\ linePositions' = LineUpdate(linePositions, rowData')
    /\ terrainFrames' = terrainFrames + 1
    /\ UNCHANGED <<groupRef, runBase, crowdVars, envVars, orbVars, appVars, recorderVars, browserVars, castVars, readVars, wallVars>>

NextTerrainRun == TerrainRunFrame

SpecTerrainRun == InitTerrainRun /\ [][NextTerrainRun]_vars

(***************************************************************************)
(* Orb central shape (VisualizerOrb.useFrame, part B).                     *)
(***************************************************************************)
\* the interpolation with the target's share added to all of x: x + t * y
LerpAdditive(x, y, tenths) == x + (y * tenths) \div 10

\* the interpolation stepping away from the target: x - t * (y - x)
LerpBackwards(x, y, tenths) == x - ((y - x) * tenths) \div 10

\* THREE.MathUtils.lerp(x, y, t) = (1 - t) * x + t * y, t in tenths.  The
\* arithmetic is fixed-point with one floor on the step; the rounding of a
\* double's last place is below the resolution of the model.
Lerp(x, y, tenths) == x + ((y - x) * tenths) \div 10

\* dataArray.slice(0, 10).reduce((a, b) => a + b, 0)
BassSum(d) == SumBins(d, 0, Min(10, Cardinality(DOMAIN d)))

\* const scale = 1.2 + bassNorm * 1.8, bassNorm = bass / 255, bass = sum / 10
\* (the product is taken in an order that stays within 32 bits)
SphereTarget(d) ==
    (12 * ScaleOne) \div 10 + ((BassSum(d) * 18 * (ScaleOne \div 10000)) \div 2550) * 1000

\* sphereRef.current.scale.setScalar(lerp(scale.x, scale, 0.3))
SphereUpdate(x, d) == Lerp(x, SphereTarget(d), 3)

\* const targetHeight = 0.2 + value * 6, value = dataArray[dataIndex] / 255
BarTarget(d, i) ==
    (2 * ScaleOne) \div 10 + d[OrbBarIndex(i)] * ((6 * ScaleOne) \div 255)

\* bar.scale.y = lerp(bar.scale.y, targetHeight, 0.3) for every bar
BarsUpdate(bars, d) ==
    [i \in 0 .. (OrbBarCount - 1) |-> Lerp(bars[i], BarTarget(d, i), 3)]

MaxOrbFrames == 5
\* bytes whose bass targets are whole hundredths
OrbBytes == {0, 85, 255}
\* bass bins [0,10) hold b, every other bin holds 0
OrbSnapshots == {Snapshot(b, 0, 0) : b \in OrbBytes}

\* one Orb frame on a snapshot of the analyzer
OrbFrame ==
    /\ Len(orbFed) < MaxOrbFrames
    /\ \E d \in OrbSnapshots :
        /\ dataArray' = d
        /\ sphereScale' = IF sphereRef THEN SphereUpdate(sphereScale, d) ELSE sphereScale
        /\ barScale' = BarsUpdate(barScale, d)
        /\ orbFed' = Append(orbFed, d[0])
    /\ UNCHANGED <<sphereRef, crowdVars, envVars, terrainVars, appVars, recorderVars, browserVars, castVars, readVars, wallVars>>

InitOrb ==
    /\ dataArray = EmptyData
    /\ CrowdInitState
    /\ EnvInitState
    /\ TerrainInitState
    /\ OrbInitState
    /\ RecorderInitState
    /\ BrowserInitState
    /\ CastInitState
    /\ ReadInitState
    /\ WallInitState

NextOrb == OrbFrame

SpecOrb == InitOrb /\ [][NextOrb]_vars

(***************************************************************************)
(* Crowd impulse envelope (VisualizerCrowd.useFrame).                      *)
(* One is the fixed-point image of 1.0: a multiple of 4*105, 15*125,       *)
(* 50*165*10/6 and 10, so that every target and the 0.1 step are whole.    *)
(***************************************************************************)
One == 577500
ReleaseStep == One \div 10

BandFrom(b) == IF b = "bass" THEN 0 ELSE IF b = "snare" THEN 10 ELSE 200
BandTo(b) == IF b = "bass" THEN 4 ELSE IF b = "snare" THEN 25 ELSE 250
Threshold(b) == IF b = "bass" THEN 150 ELSE IF b = "snare" THEN 130 ELSE 90

\* calcBounce(sum / count, threshold), kept exact by working on the sum
CalcBounce(sum, count, threshold) ==
    IF sum > threshold * count
    THEN (One \div ((255 - threshold) * count)) * (sum - threshold * count)
    ELSE 0

\* the three targets computed with the bass threshold
TargetSharedThreshold(b, d) ==
    LET count == BandTo(b) - BandFrom(b)
        raw == CalcBounce(SumBins(d, BandFrom(b), BandTo(b)), count, Threshold("bass"))
    IN IF b = "high" THEN (raw * 6) \div 10 ELSE raw

\* targetBass / targetSnare / targetHigh; highs are scaled by 0.6
Target(b, d) ==
    LET count == BandTo(b) - BandFrom(b)
        raw == CalcBounce(SumBins(d, BandFrom(b), BandTo(b)), count, Threshold(b))
    IN IF b = "high" THEN (raw * 6) \div 10 ELSE raw

\* Math.max(0, prev * 0.85 < target ? target : prev - 0.1) without the clamp
NextBounceUnclamped(prev, target) ==
    IF prev * 17 < target * 20 THEN target ELSE prev - ReleaseStep

\* a release that forgets geometrically instead of by the fixed step
NextBounceGeometric(prev, target) ==
    Max(0, IF prev * 17 < target * 20 THEN target ELSE (prev * 17) \div 20)

\* an update whose attack test compares the undecayed previous value
NextBounceGateUnscaled(prev, target) ==
    Max(0, IF prev < target THEN target ELSE prev - ReleaseStep)

\* an update that follows the target whatever the previous value
NextBounceFollowsTarget(prev, target) == Max(0, target)

\* Math.max(0, prev * 0.85 < target ? target : prev - 0.1)
NextBounce(prev, target) ==
    Max(0, IF prev * 17 < target * 20 THEN target ELSE prev - ReleaseStep)

\* setBounceValues(prev => ({bass: ..., snare: ..., high: ...}))
SetBounceValues(prev, d) ==
    [b \in Bands |-> NextBounce(prev[b], Target(b, d))]

\* every figure is passed the bass impulse
BouncePropBassForAll(char, values) == values["bass"]

\* the bounce prop the render passes to a figure: the impulse of its class
BounceProp(char, values) ==
    IF char.reactivity = "bass" THEN values["bass"]
    ELSE IF char.reactivity = "snare" THEN values["snare"]
    ELSE values["high"]

\* bounce - delay * 0.15, not clamped
EffectiveBounceUnclamped(bounce, delay) ==
    bounce * (FigureUnit \div One) - delay * ((FigureUnit \div 4000) * 15)

\* Math.max(0, bounce - (delay * 0.15)); bounce in impulse units, delay in
\* fortieths of a second, the result in units of 1/FigureUnit
EffectiveBounce(bounce, delay) ==
    Max(0, bounce * (FigureUnit \div One) - delay * ((FigureUnit \div 4000) * 15))

\* Character's useFrame, the bounce and scale part: squash, stretch and the
\* scale set on the group (position.y and rotation.y are not tracked)
CharacterFrame(char, bounce) ==
    LET effectiveBounce == EffectiveBounce(bounce, char.delay)
        squash == Max(0, 0 - effectiveBounce) \div 5
        stretch == (effectiveBounce * 3) \div 20
    IN  [effectiveBounce |-> effectiveBounce,
         squash |-> squash,
         scaleY |-> FigureUnit + stretch - squash,
         scaleXZ |-> FigureUnit - (stretch \div 2) + (squash \div 2)]

\* characters.map(...): the re-render passes every figure its bounce, and the
\* figure's next useFrame runs with it
Figures(chars, values) ==
    [i \in 1 .. Len(chars) |-> CharacterFrame(chars[i], BounceProp(chars[i], values))]

\* bytes the crowd snapshots are built from
CrowdBytes == {0, 200, 255}
CrowdSnapshots == {Snapshot(lo, mid, hi) : lo \in CrowdBytes, mid \in CrowdBytes, hi \in CrowdBytes}

\* one Crowd frame: read the snapshot, update the three impulses
CrowdFrame ==
    \E d \in CrowdSnapshots :
        /\ dataArray' = d
        /\ bounceValues' = SetBounceValues(bounceValues, d)
        /\ figures' = Figures(characters, bounceValues')
        /\ UNCHANGED <<envVars, terrainVars, orbVars, appVars, recorderVars, browserVars,
                       randomSeed, characters, readVars, wallVars>>

InitCrowd ==
    /\ dataArray = EmptyData
    /\ CrowdInitState
    /\ EnvInitState
    /\ TerrainInitState
    /\ OrbInitState
    /\ RecorderInitState
    /\ BrowserInitState
    /\ CastInitState
    /\ ReadInitState
    /\ WallInitState

NextCrowd == CrowdFrame

SpecCrowd == InitCrowd /\ [][NextCrowd]_vars

(***************************************************************************)
(* First render of VisualizerCrowd: the cast is built once, from whatever  *)
(* state Math.random() is in.                                              *)
(***************************************************************************)
CrowdMount ==
    /\ characters = <<>>
    /\ characters' = Characters(randomSeed)
    /\ figures' = [i \in 1 .. Len(characters') |-> MountedFigure]
    /\ UNCHANGED <<dataArray, randomSeed, crowdVars, envVars, terrainVars, orbVars,
                   appVars, recorderVars, browserVars, readVars, wallVars>>

InitCrowdMount ==
    /\ dataArray = EmptyData
    /\ CrowdInitState
    /\ EnvInitState
    /\ TerrainInitState
    /\ OrbInitState
    /\ RecorderInitState
    /\ BrowserInitState
    /\ randomSeed \in RandomSeeds
    /\ characters = <<>>
    /\ figures = <<>>
    /\ ReadInitState
    /\ WallInitState

NextCrowdMount == CrowdMount

SpecCrowdMount == InitCrowdMount /\ [][NextCrowdMount]_vars

(***************************************************************************)
(* Envelope run: from impulse 0, one snapshot held for 1..MaxHold frames,  *)
(* then snapshots below every threshold on all later frames.               *)
(***************************************************************************)
MaxHold == 3
MaxDrop == 12

HoldBytes == {140, 200, 255}
HoldSnapshots == {Snapshot(lo, mid, hi) : lo \in HoldBytes, mid \in HoldBytes, hi \in HoldBytes}
LowBytes == {0, 90}
LowSnapshots == {Snapshot(lo, lo, lo) : lo \in LowBytes}

InitEnvelope ==
    /\ dataArray = EmptyData
    /\ CrowdInitState
    /\ envHold \in HoldSnapshots
    /\ envHeld = 0
    /\ envDropped = 0
    /\ envBefore = [b \in Bands |-> 0]
    /\ TerrainInitState
    /\ OrbInitState
    /\ RecorderInitState
    /\ BrowserInitState
    /\ CastInitState
    /\ ReadInitState
    /\ WallInitState

\* a frame of the run: the held snapshot again
EnvHoldFrame ==
    /\ envDropped = 0
    /\ envHeld < MaxHold
    /\ dataArray' = envHold
    /\ bounceValues' = SetBounceValues(bounceValues, envHold)
    /\ envBefore' = bounceValues
    /\ envHeld' = envHeld + 1
    /\ figures' = Figures(characters, bounceValues')
    /\ UNCHANGED <<envHold, envDropped, terrainVars, orbVars, appVars, recorderVars, browserVars,
                   randomSeed, characters, readVars, wallVars>>

\* a frame after the run: any snapshot below the thresholds
EnvDropFrame ==
    /\ envHeld >= 1
    /\ \E d \in LowSnapshots :
        /\ dataArray' = d
        /\ bounceValues' = SetBounceValues(bounceValues, d)
        /\ envBefore' = bounceValues
    /\ envDropped' = Min(envDropped + 1, MaxDrop)
    /\ figures' = Figures(characters, bounceValues')
    /\ UNCHANGED <<envHold, envHeld, terrainVars, orbVars, appVars, recorderVars, browserVars,
                   randomSeed, characters, readVars, wallVars>>

NextEnvelope == EnvHoldFrame \/ EnvDropFrame

SpecEnvelope == InitEnvelope /\ [][NextEnvelope]_vars

(***************************************************************************)
(* Envelope run with a rebound: at some frame of the first run the input   *)
(* changes to a second held snapshot whose bands are silent, moderately    *)
(* loud or slightly below full scale, and the run goes on from there.      *)
(***************************************************************************)
ReboundBytes == {0, 194, 240}
ReboundSnapshots ==
    {Snapshot(lo, mid, hi) : lo \in ReboundBytes, mid \in ReboundBytes, hi \in ReboundBytes}

\* the first frame of the second held snapshot
EnvReboundFrame ==
    /\ envHold \in HoldSnapshots
    /\ envHeld >= 1
    /\ \E d \in ReboundSnapshots :
        /\ envHold' = d
        /\ dataArray' = d
        /\ bounceValues' = SetBounceValues(bounceValues, d)
    /\ envBefore' = bounceValues
    /\ envHeld' = 1
    /\ envDropped' = 0
    /\ figures' = Figures(characters, bounceValues')
    /\ UNCHANGED <<terrainVars, orbVars, appVars, recorderVars, browserVars,
                   randomSeed, characters, readVars, wallVars>>

NextRebound == EnvHoldFrame \/ EnvDropFrame \/ EnvReboundFrame

SpecRebound == InitEnvelope /\ [][NextRebound]_vars

(***************************************************************************)
(* Frame capture (RecorderController) under the App that renders it.       *)
(* The controller is mounted while the App is VISUALIZING.  Each handler   *)
(* is one step: the state change, the re-render it causes and the effect   *)
(* run of that render.  Every App render passes a new onStopRecording      *)
(* arrow, so every App re-render re-runs the effect.  A controller that is *)
(* unmounted keeps its refs alive for the encoder handlers that closed     *)
(* over them; a later mount is a new instance with fresh refs.             *)
(***************************************************************************)
MaxEncoders == 2

VisualizerModes == {"ORB", "TERRAIN", "PARTY", "WALL"}
SegmentSizes == {0, 1}
StartOutcomes == {"ok", "constructorThrows", "startThrows"}

\* options.mimeType without the isTypeSupported test
MimeTypeVp9Only(supported) == "video/webm;codecs=vp9"

\* options.mimeType after the isTypeSupported test
MimeTypeFor(supported) ==
    IF supported THEN "video/webm;codecs=vp9" ELSE "video/webm"

\* new MediaRecorder(stream, options) with its two handlers attached; owner
\* is the controller instance whose refs the handlers closed over
NewRecorder(supported, owner) ==
    [state |-> "inactive", pending |-> <<>>, emitted |-> <<>>,
     mimeType |-> MimeTypeFor(supported), owner |-> owner]

\* the controller's view of the world while a handler runs
Controller ==
    [isRecording |-> isRecording, ref |-> mediaRecorderRef, chunks |-> chunksRef,
     encs |-> encoders, downloads |-> downloads, effects |-> <<>>, onStop |-> FALSE,
     mounted |-> Mounted(appState, analyser), detached |-> detachedChunks]

\* the number of the mounted (or next) controller instance
Instance(c) == Len(c.detached) + 1

\* mediaRecorderRef.current && mediaRecorderRef.current.state === 'recording'
Armed(ref, encs) == ref # NoEncoder /\ encs[ref].state = "recording"

\* MediaRecorder.stop(): inactive at once, and a task is queued that fires
\* the dataavailable and stop events
StopRecorder(r) ==
    [r EXCEPT !.state = "inactive", !.pending = <<"stopTask">>]

\* the else branch without the test of the recorder's state
StopBranchUnguarded(c) ==
    IF c.ref # NoEncoder
    THEN [c EXCEPT !.encs[c.ref] = StopRecorder(@), !.effects = Append(@, "stop")]
    ELSE [c EXCEPT !.effects = Append(@, "stopNoop")]

\* the else branch of the effect
StopBranch(c) ==
    IF Armed(c.ref, c.encs)
    THEN [c EXCEPT !.encs[c.ref] = StopRecorder(@), !.effects = Append(@, "stop")]
    ELSE [c EXCEPT !.effects = Append(@, "stopNoop")]

\* onStop() = setIsRecording(false): a change of state re-renders the App, and
\* the effect of the mounted controller, if there is one, takes the else branch
OnStop(c) ==
    IF c.isRecording
    THEN IF c.mounted
         THEN StopBranch([c EXCEPT !.isRecording = FALSE, !.onStop = TRUE])
         ELSE [c EXCEPT !.isRecording = FALSE, !.onStop = TRUE]
    ELSE [c EXCEPT !.onStop = TRUE]

\* the start branch with the recorder stored before it is started
StartBranchStoreFirst(c, supported, outcome) ==
    LET cleared == [c EXCEPT !.chunks = <<>>]
        n == Len(c.encs) + 1
    IN  CASE outcome = "ok" ->
               [cleared EXCEPT !.encs = Append(@, [NewRecorder(supported, Instance(c)) EXCEPT !.state = "recording"]),
                               !.ref = n,
                               !.effects = Append(@, "start")]
          [] outcome = "constructorThrows" ->
               OnStop([cleared EXCEPT !.effects = Append(@, "startFailed")])
          [] outcome = "startThrows" ->
               OnStop([cleared EXCEPT !.encs = Append(@, NewRecorder(supported, Instance(c))),
                                      !.ref = n,
                                      !.effects = Append(@, "startFailed")])

\* the if branch of the effect: clear the buffer, construct, start, store
StartBranch(c, supported, outcome) ==
    LET cleared == [c EXCEPT !.chunks = <<>>]
        n == Len(c.encs) + 1
    IN  CASE outcome = "ok" ->
               [cleared EXCEPT !.encs = Append(@, [NewRecorder(supported, Instance(c)) EXCEPT !.state = "recording"]),
                               !.ref = n,
                               !.effects = Append(@, "start")]
          [] outcome = "constructorThrows" ->
               OnStop([cleared EXCEPT !.effects = Append(@, "startFailed")])
          [] outcome = "startThrows" ->
               OnStop([cleared EXCEPT !.encs = Append(@, NewRecorder(supported, Instance(c))),
                                      !.effects = Append(@, "startFailed")])

\* useEffect(() => { if (isRecording) {...} else {...} }, [isRecording, gl, onStop])
RunEffect(c, supported, outcome) ==
    IF c.isRecording THEN StartBranch(c, supported, outcome) ELSE StopBranch(c)

\* the controller is removed from the tree: the effect has no cleanup, so
\* nothing runs; the instance's refs stay reachable from its encoders' handlers
Unmount(c) ==
    [c EXCEPT !.detached = Append(@, c.chunks), !.ref = NoEncoder, !.chunks = <<>>,
              !.mounted = FALSE, !.effects = Append(@, "unmount")]

\* a render of the App that leaves the visualizer shown (willMount) or not:
\* a mounted controller re-runs its effect or is unmounted, an absent one is
\* mounted with fresh refs and runs its effect for the first time
Render(c, willMount, supported, outcome) ==
    CASE c.mounted /\ willMount -> RunEffect(c, supported, outcome)
      [] c.mounted /\ ~willMount -> Unmount(c)
      [] ~c.mounted /\ willMount ->
           RunEffect([c EXCEPT !.mounted = TRUE, !.effects = Append(@, "mount")],
                     supported, outcome)
      [] OTHER -> c

\* write a finished controller run back, naming the handler that ran
Commit(c, handler) ==
    /\ isRecording' = c.isRecording
    /\ mediaRecorderRef' = c.ref
    /\ chunksRef' = c.chunks
    /\ encoders' = c.encs
    /\ downloads' = c.downloads
    /\ detachedChunks' = c.detached
    /\ lastStep' = [handler |-> handler, effects |-> c.effects, onStop |-> c.onStop]

\* the renderers VisualizerScene has mounted after the step
RenderScene ==
    mountedRenderers' = IF Mounted(appState', analyser')
                        THEN SceneChildren(visualizerMode')
                        ELSE {}

\* a render of the App with recording armed constructs an encoder
MayRender(armed) == armed => Len(encoders) < MaxEncoders

\* toggleRecording: setIsRecording(!isRecording); the button is in the
\* header shown while VISUALIZING
ToggleRecording ==
    /\ appState = "VISUALIZING"
    /\ MayRender(~isRecording)
    /\ \E outcome \in StartOutcomes :
         Commit(Render([Controller EXCEPT !.isRecording = ~isRecording],
                       Mounted(appState, analyser), vp9Supported, outcome),
                "toggleRecording")
    /\ UNCHANGED <<visualizerMode, isMuted, appState, audioVars>>
    /\ RenderScene
    /\ UNCHANGED <<dataArray, crowdVars, envVars, terrainVars, orbVars, browserVars, castVars, readVars, wallVars>>

\* a mode button: setVisualizerMode(m); setting the current mode again does
\* not re-render
SetVisualizerMode(m) ==
    /\ appState = "VISUALIZING"
    /\ m # visualizerMode
    /\ MayRender(isRecording)
    /\ visualizerMode' = m
    /\ \E outcome \in StartOutcomes :
         Commit(Render(Controller, Mounted(appState, analyser), vp9Supported, outcome),
                "setVisualizerMode")
    /\ UNCHANGED <<isMuted, appState, audioVars>>
    /\ RenderScene
    /\ UNCHANGED <<dataArray, crowdVars, envVars, terrainVars, orbVars, browserVars, castVars, readVars, wallVars>>

\* toggleMute: the gain node exists once the audio context was initialized
ToggleMute ==
    /\ appState = "VISUALIZING"
    /\ analyser
    /\ MayRender(isRecording)
    /\ isMuted' = ~isMuted
    /\ \E outcome \in StartOutcomes :
         Commit(Render(Controller, Mounted(appState, analyser), vp9Supported, outcome),
                "toggleMute")
    /\ UNCHANGED <<visualizerMode, appState, audioVars>>
    /\ RenderScene
    /\ UNCHANGED <<dataArray, crowdVars, envVars, terrainVars, orbVars, browserVars, castVars, readVars, wallVars>>

\* the encoder's handlers use the refs of the instance that constructed it
Live(c, e) == c.mounted /\ c.encs[e].owner = Instance(c)

\* recorder.ondataavailable: keep the segment if it is not empty
OnDataAvailable(c, e, size) ==
    LET seg == [enc |-> e, size |-> size]
        kept == [c EXCEPT !.encs[e].emitted = Append(@, seg)]
    IN  IF size > 0
        THEN IF Live(c, e)
             THEN [kept EXCEPT !.chunks = Append(@, seg)]
             ELSE [kept EXCEPT !.detached[c.encs[e].owner] = Append(@, seg)]
        ELSE kept

\* recorder.onstop: download the buffer as one blob, then onStop()
OnStopEvent(c, e) ==
    LET buffer == IF Live(c, e) THEN c.chunks ELSE c.detached[c.encs[e].owner]
    IN  OnStop([c EXCEPT !.downloads = Append(@, [enc |-> e, blob |-> buffer])])

\* the task stop() queued for encoder e: it fires dataavailable with the data
\* gathered, then stop, with nothing running in between
StopTask(e) ==
    /\ encoders[e].pending # <<>>
    /\ \E size \in SegmentSizes :
         Commit(OnStopEvent(OnDataAvailable([Controller EXCEPT !.encs[e].pending = <<>>],
                                            e, size), e), "onstop")
    /\ UNCHANGED <<visualizerMode, isMuted, appState, audioVars>>
    /\ RenderScene
    /\ UNCHANGED <<dataArray, crowdVars, envVars, terrainVars, orbVars, browserVars, castVars, readVars, wallVars>>

InitRecorder ==
    /\ dataArray = EmptyData
    /\ CrowdInitState
    /\ EnvInitState
    /\ TerrainInitState
    /\ OrbInitState
    /\ RecorderInitState
    /\ vp9Supported \in BOOLEAN
    /\ CastInitState
    /\ ReadInitState
    /\ WallInitState

NextRecorder ==
    \/ ToggleRecording
    \/ \E m \in VisualizerModes : SetVisualizerMode(m)
    \/ ToggleMute
    \/ \E e \in 1 .. Len(encoders) : StopTask(e)

SpecRecorder == InitRecorder /\ [][NextRecorder]_vars

(***************************************************************************)
(* The App from construction on: file selection, the asynchronous          *)
(* startVisualizer call, playback and the way back.  The awaits of         *)
(* startVisualizer before decodeAudioData change no state, so a call is    *)
(* pending from the click until its decode settles.  Mode and mute         *)
(* switches inside a visualizing session are explored by SpecRecorder.     *)
(***************************************************************************)
MaxCalls == 2

\* useState / useRef initial values of App; no controller is mounted
AppInitState ==
    /\ isRecording = FALSE
    /\ visualizerMode = "ORB"
    /\ isMuted = FALSE
    /\ appState = "IDLE"
    /\ audioFile = FALSE
    /\ analyser = FALSE
    /\ analyzeTimers = 0
    /\ startedCalls = 0
    /\ pendingDecodes = 0
    /\ sources = <<>>
    /\ sourceNodeRef = NoSource
    /\ alerts = 0
    /\ mountedRenderers = {}
    /\ mediaRecorderRef = NoEncoder
    /\ chunksRef = <<>>
    /\ encoders = <<>>
    /\ downloads = <<>>
    /\ detachedChunks = <<>>
    /\ lastStep = [handler |-> "construct", effects |-> <<>>, onStop |-> FALSE]

\* the controller's part of an App handler that leaves isRecording at rec,
\* appState at state and analyser at anal; rerender says a state value changed
AppStep(handler, rec, state, anal, rerender) ==
    /\ MayRender(rerender /\ rec /\ Mounted(state, anal))
    /\ \E outcome \in StartOutcomes :
         Commit(IF rerender
                THEN Render([Controller EXCEPT !.isRecording = rec],
                            Mounted(state, anal), vp9Supported, outcome)
                ELSE Controller,
                handler)

\* if (sourceNodeRef.current) sourceNodeRef.current.stop()
StopCurrent(srcs, ref) ==
    IF ref # NoSource THEN [srcs EXCEPT ![ref] = "stopped"] ELSE srcs

\* handleFileSelect, from the FileUpload shown while IDLE
HandleFileSelect ==
    /\ appState = "IDLE"
    /\ audioFile' = TRUE
    /\ appState' = "ANALYZING"
    /\ analyzeTimers' = analyzeTimers + 1
    /\ AppStep("handleFileSelect", isRecording, "ANALYZING", analyser, TRUE)
    /\ UNCHANGED <<visualizerMode, isMuted, analyser, startedCalls, pendingDecodes,
                   sources, sourceNodeRef, alerts>>
    /\ RenderScene
    /\ UNCHANGED <<dataArray, crowdVars, envVars, terrainVars, orbVars, browserVars, castVars, readVars, wallVars>>

\* setTimeout(() => setAppState(AppState.READY), 500) fires
AnalyzeTimeout ==
    /\ analyzeTimers > 0
    /\ analyzeTimers' = analyzeTimers - 1
    /\ appState' = "READY"
    /\ AppStep("analyzeTimeout", isRecording, "READY", analyser, appState # "READY")
    /\ UNCHANGED <<visualizerMode, isMuted, audioFile, analyser, startedCalls,
                   pendingDecodes, sources, sourceNodeRef, alerts>>
    /\ RenderScene
    /\ UNCHANGED <<dataArray, crowdVars, envVars, terrainVars, orbVars, browserVars, castVars, readVars, wallVars>>

\* the Change File button of the READY view: setAppState(AppState.IDLE)
ChangeFile ==
    /\ appState = "READY"
    /\ audioFile
    /\ appState' = "IDLE"
    /\ AppStep("changeFile", isRecording, "IDLE", analyser, TRUE)
    /\ UNCHANGED <<visualizerMode, isMuted, audioVars>>
    /\ RenderScene
    /\ UNCHANGED <<dataArray, crowdVars, envVars, terrainVars, orbVars, browserVars, castVars, readVars, wallVars>>

\* startVisualizer up to its await of decodeAudioData: setTrimRegion,
\* initAudioContext (which sets the analyser), the reads of the file
StartVisualizer ==
    /\ appState = "READY"
    /\ audioFile
    /\ startedCalls < MaxCalls
    /\ startedCalls' = startedCalls + 1
    /\ analyser' = TRUE
    /\ pendingDecodes' = pendingDecodes + 1
    /\ AppStep("startVisualizer", isRecording, appState, TRUE, TRUE)
    /\ UNCHANGED <<visualizerMode, isMuted, appState, audioFile, analyzeTimers,
                   sources, sourceNodeRef, alerts>>
    /\ RenderScene
    /\ UNCHANGED <<dataArray, crowdVars, envVars, terrainVars, orbVars, browserVars, castVars, readVars, wallVars>>

\* playLoop: stop the previous source, create and start a new one
PlayLoop(srcs, ref) == Append(StopCurrent(srcs, ref), "playing")

\* decodeAudioData resolves: playLoop, store the source, show the visualizer
DecodeResolved ==
    /\ pendingDecodes > 0
    /\ pendingDecodes' = pendingDecodes - 1
    /\ sources' = PlayLoop(sources, sourceNodeRef)
    /\ sourceNodeRef' = Len(sources) + 1
    /\ appState' = "VISUALIZING"
    /\ AppStep("decodeResolved", isRecording, "VISUALIZING", analyser,
               appState # "VISUALIZING")
    /\ UNCHANGED <<visualizerMode, isMuted, audioFile, analyser, analyzeTimers,
                   startedCalls, alerts>>
    /\ RenderScene
    /\ UNCHANGED <<dataArray, crowdVars, envVars, terrainVars, orbVars, browserVars, castVars, readVars, wallVars>>

\* the catch with the visualizer shown all the same
DecodeCatchShows == "VISUALIZING"

\* the state the catch sets
DecodeCatchState == "READY"

\* decodeAudioData rejects: console.error, alert, setAppState(READY)
DecodeRejected ==
    /\ pendingDecodes > 0
    /\ pendingDecodes' = pendingDecodes - 1
    /\ alerts' = alerts + 1
    /\ appState' = DecodeCatchState
    /\ AppStep("decodeRejected", isRecording, DecodeCatchState, analyser,
               appState # DecodeCatchState)
    /\ UNCHANGED <<visualizerMode, isMuted, audioFile, analyser, analyzeTimers,
                   startedCalls, sources, sourceNodeRef>>
    /\ RenderScene
    /\ UNCHANGED <<dataArray, crowdVars, envVars, terrainVars, orbVars, browserVars, castVars, readVars, wallVars>>

\* handleBack: stopAudio(), setAppState(READY), setIsRecording(false)
HandleBack ==
    /\ appState = "VISUALIZING"
    /\ sources' = StopCurrent(sources, sourceNodeRef)
    /\ sourceNodeRef' = NoSource
    /\ appState' = "READY"
    /\ AppStep("handleBack", FALSE, "READY", analyser, TRUE)
    /\ UNCHANGED <<visualizerMode, isMuted, audioFile, analyser, analyzeTimers,
                   startedCalls, pendingDecodes, alerts>>
    /\ RenderScene
    /\ UNCHANGED <<dataArray, crowdVars, envVars, terrainVars, orbVars, browserVars, castVars, readVars, wallVars>>

\* no renderer has been mounted yet: no snapshot, history buffer or cast has
\* been allocated and no ref is attached
NoRendererState ==
    /\ dataArray = <<>>
    /\ CrowdInitState
    /\ envHold = <<>>
    /\ envHeld = 0
    /\ envDropped = 0
    /\ envBefore = [b \in Bands |-> 0]
    /\ groupRef = FALSE
    /\ rowData = <<>>
    /\ linePositions = <<>>
    /\ terrainFrames = 0
    /\ runBase = 0
    /\ sphereRef = FALSE
    /\ sphereScale = ScaleOne
    /\ barScale = <<>>
    /\ orbFed = <<>>
    /\ randomSeed = DefaultSeed
    /\ characters = <<>>
    /\ figures = <<>>
    /\ ReadInitState
    /\ WallInitState

InitApp ==
    /\ NoRendererState
    /\ AppInitState
    /\ BrowserInitState

NextApp ==
    \/ HandleFileSelect
    \/ AnalyzeTimeout
    \/ ChangeFile
    \/ StartVisualizer
    \/ DecodeResolved
    \/ DecodeRejected
    \/ HandleBack
    \/ ToggleRecording
    \/ \E e \in 1 .. Len(encoders) : StopTask(e)

SpecApp == InitApp /\ [][NextApp]_vars

(***************************************************************************)
(* Frequency reads.  A renderer allocates dataArray with the analyser's    *)
(* frequencyBinCount = fftSize / 2 entries; fftSize is a power of two from *)
(* 32 to 32768.  Reading a Uint8Array at an index outside [0, length)      *)
(* yields undefined.  Snapshots here carry the first 1024 bins, which      *)
(* covers every index the frames read.                                     *)
(***************************************************************************)
FftSizes == {32, 64, 128, 256, 512, 1024, 2048, 4096, 8192, 16384, 32768}
BinCounts == {n \div 2 : n \in FftSizes}

Undefined == "undefined"

\* dataArray[i] for a dataArray of length n
ByteAt(d, n, i) == IF i >= 0 /\ i < n THEN d[i] ELSE Undefined

\* the indices the three band loops of the Crowd read
CrowdReadIndices == UNION {BandFrom(b) .. (BandTo(b) - 1) : b \in Bands}

\* the indices the inner ring bars of the Orb read
OrbBarIndices == {OrbBarIndex(i) : i \in 0 .. (OrbBarCount - 1)}

ReadBytes == {0, 255}
ReadSnapshots == {Snapshot(lo, mid, hi) : lo \in ReadBytes, mid \in ReadBytes, hi \in ReadBytes}

\* the band sums of one Crowd frame
CrowdReadFrame ==
    /\ \E d \in ReadSnapshots :
        /\ dataArray' = d
        /\ frameReads' = [by |-> "VisualizerCrowd",
                          values |-> [i \in CrowdReadIndices |-> ByteAt(d, binCount, i)]]
    /\ vertexReads' = NoVertexReads
    /\ UNCHANGED <<binCount, crowdVars, envVars, terrainVars, orbVars, appVars,
                   recorderVars, browserVars, castVars, wallVars>>

InitReads ==
    /\ dataArray = EmptyData
    /\ CrowdInitState
    /\ EnvInitState
    /\ TerrainInitState
    /\ OrbInitState
    /\ RecorderInitState
    /\ BrowserInitState
    /\ CastInitState
    /\ binCount \in BinCounts
    /\ frameReads = NoReads
    /\ vertexReads = NoVertexReads
    /\ WallInitState

\* a snapshot of n entries whose entry i is the byte d holds at i, d's
\* pattern repeating past its last entry
WideByteAt(d, n, i) ==
    IF i >= 0 /\ i < n THEN d[i % Cardinality(DOMAIN d)] ELSE Undefined

\* the stride rounded up over the whole snapshot
FrequencyStepCeiling(n) == (n + SAMPLES - 1) \div SAMPLES

\* Math.floor((dataArray.length * 0.6) / SAMPLES) for a dataArray of length n
FrequencyStepFor(n) == (n * 6) \div (10 * SAMPLES)

\* const dataIndex = j * frequencyStep
TerrainDataIndex(j, n) == j * FrequencyStepFor(n)

\* the front row reads of one Terrain frame
TerrainReadFrame ==
    /\ \E d \in ReadSnapshots :
        /\ dataArray' = d
        /\ vertexReads' =
              [by |-> "VisualizerTerrain",
               length |-> binCount,
               reads |-> [j \in 0 .. (SAMPLES - 1) |->
                            [index |-> TerrainDataIndex(j, binCount),
                             value |-> WideByteAt(d, binCount, TerrainDataIndex(j, binCount))]]]
    /\ frameReads' = NoReads
    /\ UNCHANGED <<binCount, crowdVars, envVars, terrainVars, orbVars, appVars,
                   recorderVars, browserVars, castVars, wallVars>>

\* const WAVE_POINTS = 256
WAVE_POINTS == 256

\* new Float32Array((WAVE_POINTS + 1) * 3): the vertices of the ring
WaveVertices == 0 .. WAVE_POINTS

\* the sample index of a vertex without the wrap
WaveDataIndexNoWrap(i, len) == i * (len \div WAVE_POINTS)

\* step = Math.floor(waveformData.length / WAVE_POINTS);
\* dataIndex = (i * step) % waveformData.length
WaveDataIndex(i, len) == (i * (len \div WAVE_POINTS)) % len

\* time-domain snapshots: silence, and a square wave of period 2, 256 or 512
WavePatterns ==
    {[k \in 0 .. 0 |-> 128]} \cup
    {[k \in 0 .. (p - 1) |-> IF 2 * k < p THEN 255 ELSE 0] : p \in {2, 256, 512}}

\* the reads of one Orb frame: the waveform ring from waveformData, which
\* has fftSize entries, and the bar heights from dataArray
OrbReadFrame ==
    /\ \E d \in ReadSnapshots, w \in WavePatterns :
        /\ dataArray' = d
        /\ vertexReads' =
              [by |-> "VisualizerOrb",
               length |-> 2 * binCount,
               reads |-> [i \in WaveVertices |->
                            [index |-> WaveDataIndex(i, 2 * binCount),
                             value |-> WideByteAt(w, 2 * binCount, WaveDataIndex(i, 2 * binCount))]]]
        /\ frameReads' = [by |-> "VisualizerOrb",
                          values |-> [i \in OrbBarIndices |-> ByteAt(d, binCount, i)]]
    /\ UNCHANGED <<binCount, crowdVars, envVars, terrainVars, orbVars, appVars,
                   recorderVars, browserVars, castVars, wallVars>>

NextReads == CrowdReadFrame \/ OrbReadFrame \/ TerrainReadFrame

SpecReads == InitReads /\ [][NextReads]_vars

(***************************************************************************)
(* Wall pattern (VisualizerWall fragmentShader).  Times are milliseconds,  *)
(* angles milliradians, every other quantity thousandths.  sin and cos are *)
(* evaluated to the resolution of a 24-entry table (15 degrees).           *)
(***************************************************************************)
TwoPi == 6283
HalfPi == 1571

SinTable ==
    <<0, 259, 500, 707, 866, 966, 1000, 966, 866, 707, 500, 259,
      0, -259, -500, -707, -866, -966, -1000, -966, -866, -707, -500, -259>>

Sin(a) == SinTable[((a % TwoPi) * Len(SinTable)) \div TwoPi + 1]
Cos(a) == Sin(a + HalfPi)

Abs(x) == IF x < 0 THEN 0 - x ELSE x
Clamp(x, lo, hi) == Min(Max(x, lo), hi)

\* smoothstep with the interpolant clamped to [0, 2]
SmoothstepWideClamp(e0, e1, x) ==
    LET t == Clamp(((x - e0) * 1000) \div (e1 - e0), 0, 2000)
    IN  (((t * t) \div 1000) * (3000 - 2 * t)) \div 1000

\* GLSL smoothstep: t = clamp((x - e0) / (e1 - e0), 0, 1); t * t * (3 - 2 t)
Smoothstep(e0, e1, x) ==
    LET t == Clamp(((x - e0) * 1000) \div (e1 - e0), 0, 1000)
    IN  (((t * t) \div 1000) * (3000 - 2 * t)) \div 1000

\* main(): the pattern value written to gl_FragColor for uniforms time, bass
\* and the varying vUv = (u, v)
Pattern(time, bass, u, v) ==
    LET x0 == (u - 500) * 50
        y0 == (v - 500) * 50
        rot == time \div 20
        s == Sin(rot)
        c == Cos(rot)
        x1 == (c * x0 + s * y0) \div 1000
        y1 == (c * y0 - s * x0) \div 1000
        warpStrength == 1500 + bass * 2
        x2 == x1 + (Sin(y1 \div 2 + time \div 2) * warpStrength) \div 1000
        y2 == y1 + (Cos(x1 \div 2 + (time * 2) \div 5) * warpStrength) \div 1000
        field == Sin(x2) + Sin(y2) + Sin(x2 \div 2 + y2 \div 2 + time)
        lineThickness == 150 + bass \div 10
        sharpness == 50
    IN  1000 - Smoothstep(lineThickness - sharpness, lineThickness + sharpness, Abs(field))

WallTimes == {0, 1000, 7000}
WallBass == {0, 500, 1000}
WallUvs == {<<500, 500>>, <<0, 0>>, <<1000, 1000>>, <<250, 750>>}

\* the shader runs for one fragment
WallFragment ==
    /\ \E time \in WallTimes, bass \in WallBass, uv \in WallUvs :
        wallSample' = [in |-> <<time, bass, uv>>, out |-> Pattern(time, bass, uv[1], uv[2])]
    /\ wallEarlier' = wallSample
    /\ UNCHANGED <<dataArray, crowdVars, envVars, terrainVars, orbVars, appVars,
                   recorderVars, browserVars, castVars, readVars,
                   uniformTime, uniformBass, wallFrames>>

MaxWallFrames == 5
WallBytes == {0, 128, 255}
\* bass bins [0,10) hold b, every other bin holds 0
WallSnapshots == {Snapshot(b, 0, 0) : b \in WallBytes}

\* const bass = (bassSum / 10) / 255, in units of 1/ScaleOne
WallBassTarget(d) == SumBins(d, 0, 10) * (ScaleOne \div 2550)

\* one Wall frame on a snapshot of the analyzer: the two uniforms are set
WallFrame ==
    /\ wallFrames < MaxWallFrames
    /\ \E d \in WallSnapshots, time \in WallTimes :
        /\ time >= uniformTime
        /\ dataArray' = d
        /\ uniformTime' = time
        /\ uniformBass' = Lerp(uniformBass, WallBassTarget(d), 2)
    /\ wallFrames' = wallFrames + 1
    /\ UNCHANGED <<wallSample, wallEarlier, crowdVars, envVars, terrainVars, orbVars, appVars,
                   recorderVars, browserVars, castVars, readVars>>

InitWall ==
    /\ dataArray = EmptyData
    /\ CrowdInitState
    /\ EnvInitState
    /\ TerrainInitState
    /\ OrbInitState
    /\ RecorderInitState
    /\ BrowserInitState
    /\ CastInitState
    /\ ReadInitState
    /\ WallInitState

NextWall == WallFragment

SpecWall == InitWall /\ [][NextWall]_vars

(***************************************************************************)
(* The frame loops of the three renderers that smooth values by linear     *)
(* interpolation, each in a session whose mode has mounted that renderer.  *)
(***************************************************************************)
LerpModes == {"ORB", "TERRAIN", "WALL"}

InitLerp ==
    /\ dataArray = EmptyData
    /\ CrowdInitState
    /\ EnvInitState
    /\ TerrainInitState
    /\ OrbInitState
    /\ \E mode \in LerpModes : SessionInitState(mode)
    /\ BrowserInitState
    /\ CastInitState
    /\ ReadInitState
    /\ WallInitState

\* useFrame callbacks run for the mounted renderer only
NextLerp ==
    \/ "VisualizerOrb" \in mountedRenderers /\ OrbFrame
    \/ "VisualizerTerrain" \in mountedRenderers /\ TerrainFrame
    \/ "VisualizerWall" \in mountedRenderers /\ WallFrame

SpecLerp == InitLerp /\ [][NextLerp]_vars

(***************************************************************************)
(* Claims                                                                  *)
(***************************************************************************)

\* C1: for each of the three bands the stored impulse value is always
\* within [0,1], whatever bytes the frames were driven by.
C1_ImpulseInUnitRange ==
    \A b \in Bands : bounceValues[b] >= 0 /\ bounceValues[b] <= One

\* a frame has decayed one band while another sits at its peak
C1_Witness ==
    /\ bounceValues["bass"] = One
    /\ bounceValues["snare"] > 0 /\ bounceValues["snare"] < ReleaseStep
    /\ bounceValues["high"] = (One * 6) \div 10

\* the band's mean energy in the held snapshot is above the band's threshold
HeldAbove(b) ==
    SumBins(envHold, BandFrom(b), BandTo(b)) > Threshold(b) * (BandTo(b) - BandFrom(b))

\* C2 (as stated): held above threshold, the impulse is 1.0 after at most one
\* frame of settling; after the drop it falls by exactly 0.1 per frame until
\* it is 0 and stays 0.
C2_ReachesOneThenFallsByStep ==
    \A b \in Bands :
        HeldAbove(b) =>
            /\ (envHeld >= 2 /\ envDropped = 0) => bounceValues[b] = One
            /\ envDropped >= 1 => bounceValues[b] = Max(0, One - envDropped * ReleaseStep)

\* C2 (amended): held above threshold from impulse 0, the impulse equals the
\* band's target from the first frame of the run on; after the drop it is the
\* target less 0.1 per frame, clamped at 0, and so stays 0 once it is 0.
C2_ReachesTargetThenFallsByStep ==
    \A b \in Bands :
        HeldAbove(b) =>
            /\ (envHeld >= 1 /\ envDropped = 0) => bounceValues[b] = Target(b, envHold)
            /\ envDropped >= 1 =>
                 bounceValues[b] = Max(0, Target(b, envHold) - envDropped * ReleaseStep)

\* a run below 1.0 whose last release step was shorter than 0.1
C2_Witness ==
    /\ HeldAbove("bass")
    /\ Target("bass", envHold) < One
    /\ envHeld >= 2
    /\ envDropped >= 1
    /\ bounceValues["bass"] = 0
    /\ Target("bass", envHold) - (envDropped - 1) * ReleaseStep > 0
    /\ Target("bass", envHold) - (envDropped - 1) * ReleaseStep < ReleaseStep

\* the encoders that are in the recording state
Recording == {e \in 1 .. Len(encoders) : encoders[e].state = "recording"}

\* C3: under any sequence of record toggles, mode switches, mute toggles and
\* the re-renders they cause, at most one MediaRecorder is recording.
C3_AtMostOneRecording == Cardinality(Recording) <= 1

\* C4: a mode switch while recording is armed leaves the session unchanged:
\* isRecording stays true, the same encoder keeps recording and the chunk
\* buffer is neither cleared nor replaced.
C4_ModeSwitchKeepsSession ==
    [][(visualizerMode' # visualizerMode /\ isRecording) =>
          /\ isRecording'
          /\ mediaRecorderRef' = mediaRecorderRef
          /\ encoders' = encoders
          /\ chunksRef' = chunksRef]_vars

\* the segments of a blob that are not empty
NonEmpty(seg) == seg.size > 0

\* the downloads that encoder e's stop event triggered
DownloadsOf(e) == {k \in 1 .. Len(downloads) : downloads[k].enc = e}

\* encoder e was stopped and both of its events have been delivered
Finalized(e) == encoders[e].emitted # <<>> /\ encoders[e].pending = <<>>

\* C5: stopping a session finalizes exactly one download, whose blob is the
\* non-empty segments that session's encoder emitted, in arrival order, and
\* leaves the controller idle.
C5_DownloadHoldsSessionSegments ==
    /\ \A e \in 1 .. Len(encoders) :
         /\ Finalized(e) => Cardinality(DownloadsOf(e)) = 1
         /\ \A k \in DownloadsOf(e) :
              downloads[k].blob = SelectSeq(encoders[e].emitted, NonEmpty)
    /\ lastStep.handler = "onstop" => ~isRecording

\* C6: when constructing or starting the encoder throws, the failure is
\* caught, onStop is called so that isRecording is false again, no new encoder
\* is stored or left recording, and the mounted renderer is not replaced.
C6_FailedStartReturnsToIdle ==
    [][(lastStep' # lastStep /\ "startFailed" \in {lastStep'.effects[k] : k \in DOMAIN lastStep'.effects}) =>
          /\ lastStep'.onStop
          /\ ~isRecording'
          /\ mediaRecorderRef' = mediaRecorderRef
          /\ \A e \in (Len(encoders) + 1) .. Len(encoders') : encoders'[e].state # "recording"
          /\ lastStep'.handler # "setVisualizerMode" => visualizerMode' = visualizerMode]_vars

\* a restart on re-render failed at recorder.start(): the new recorder was
\* dropped and the stored one was stopped by the render onStop caused
C6_Witness ==
    /\ lastStep.effects = <<"startFailed", "stop">>
    /\ lastStep.onStop
    /\ ~isRecording
    /\ Len(encoders) = 2
    /\ mediaRecorderRef = 1
    /\ encoders[2].state = "inactive" /\ encoders[2].pending = <<>>

\* C7: the stop branch run while not armed (no encoder stored, or the stored
\* one not recording) issues no stop, triggers no download, does not call
\* onStop and leaves the chunk buffer unchanged.
C7_StopWhileNotArmedIsNoOp ==
    [][(/\ visualizerMode' # visualizerMode \/ isMuted' # isMuted
        /\ ~isRecording
        /\ ~Armed(mediaRecorderRef, encoders)) =>
          /\ encoders' = encoders
          /\ downloads' = downloads
          /\ chunksRef' = chunksRef
          /\ mediaRecorderRef' = mediaRecorderRef
          /\ ~lastStep'.onStop
          /\ ~isRecording']_vars

\* the stop branch ran on a re-render after a finished session: the stored
\* encoder is inactive and its download is not repeated
C7_Witness ==
    /\ lastStep.handler = "setVisualizerMode"
    /\ lastStep.effects = <<"stopNoop">>
    /\ mediaRecorderRef # NoEncoder
    /\ encoders[mediaRecorderRef].state = "inactive"
    /\ chunksRef # <<>>
    /\ Len(downloads) = 1

\* the front row pushed by frame k of the terrain run
RunPushed(k) == FrontRow(RunSnapshot(runBase, k))

\* C8 (as stated): after K >= R frames of distinct front rows, row R-1 holds
\* the R-th most recent push and the oldest pushed row is in no row.
C8_OldestEvictedAfterRFrames ==
    terrainFrames >= ROWS =>
        /\ rowData[ROWS - 1] = RunPushed(terrainFrames - ROWS + 1)
        /\ \A i \in 0 .. (ROWS - 1) : rowData[i] # RunPushed(1)

\* C8 (amended): after K >= R frames of distinct front rows, row R-1 holds
\* the push of frame K-R+1 (the R-th most recent one); the oldest pushed row
\* is in no row once K >= R+1, and at K = R it is still in row R-1.
C8_OldestEvictedAfterRPlusOneFrames ==
    terrainFrames >= ROWS =>
        /\ rowData[ROWS - 1] = RunPushed(terrainFrames - ROWS + 1)
        /\ terrainFrames >= ROWS + 1 =>
             \A i \in 0 .. (ROWS - 1) : rowData[i] # RunPushed(1)
        /\ terrainFrames = ROWS => rowData[ROWS - 1] = RunPushed(1)

\* the run is past the first eviction and its pushes were pairwise distinct
C8_Witness ==
    /\ terrainFrames = ROWS + 2
    /\ rowData[ROWS - 1] = RunPushed(3)
    /\ \A k1 \in 1 .. terrainFrames : \A k2 \in 1 .. terrainFrames :
         k1 # k2 => RunPushed(k1) # RunPushed(k2)

\* C9: after every Terrain frame row 0 is the row computed from that frame's
\* snapshot, row i in 1..R-1 is what row i-1 was before the frame (so the old
\* row R-1 is gone), and the buffer always has R rows of S samples.
C9_ShiftAndFrontRow ==
    /\ [](/\ DOMAIN rowData = 0 .. (ROWS - 1)
          /\ \A i \in 0 .. (ROWS - 1) : DOMAIN rowData[i] = 0 .. (SAMPLES - 1))
    /\ [][terrainFrames' = terrainFrames + 1 =>
            /\ rowData'[0] = FrontRow(dataArray')
            /\ \A i \in 1 .. (ROWS - 1) : rowData'[i] = rowData[i - 1]]_vars

\* three frames of different snapshots sit in rows 0..2 above untouched rows
C9_Witness ==
    /\ terrainFrames = 3
    /\ rowData[0] = FrontRow(dataArray)
    /\ rowData[0] # rowData[1] /\ rowData[1] # rowData[2] /\ rowData[0] # rowData[2]
    /\ rowData[2] # EmptyRows[0]
    /\ rowData[3] = EmptyRows[0]

\* every frame fed so far had all bass bins at 255
OrbAllMax(fed) == \A k \in 1 .. Len(fed) : fed[k] = 255

\* C10: fed the all-255-bass snapshot on each of 5 consecutive frames from the
\* initial scale, the central-shape scale strictly increases on every frame
\* and never exceeds 3.0.
C10_ScaleRisesTowardThree ==
    [][(orbFed' # orbFed /\ OrbAllMax(orbFed')) =>
          /\ sphereScale' > sphereScale
          /\ sphereScale' <= 3 * ScaleOne]_vars

\* the fifth frame of the run: 3 - 2 * 0.7^5 = 2.66386
C10_Witness ==
    /\ Len(orbFed) = 5
    /\ OrbAllMax(orbFed)
    /\ sphereScale = 266386000

(***************************************************************************)
(* C11: with the default 7 x 14 grid, whatever the random draws, the cast  *)
(* has exactly 98 characters, their grid ids are pairwise distinct, every  *)
(* reactivity is bass, snare or high and every hair style is spiky, bob,   *)
(* buns or cap.                                                            *)
(***************************************************************************)
C11_CastIsWholeGrid ==
    characters # <<>> =>
        /\ Len(characters) = 98
        /\ \A i, j \in 1 .. Len(characters) :
              i # j => characters[i].id # characters[j].id
        /\ \A i \in 1 .. Len(characters) :
              /\ characters[i].reactivity \in {"bass", "snare", "high"}
              /\ characters[i].hairStyle \in {"spiky", "bob", "buns", "cap"}

\* a cast built from a seed other than the default one, in which all three
\* reactivities and all four hair styles were drawn
C11_Witness ==
    /\ characters # <<>>
    /\ randomSeed # DefaultSeed
    /\ {characters[i].reactivity : i \in 1 .. Len(characters)} = {"bass", "snare", "high"}
    /\ {characters[i].hairStyle : i \in 1 .. Len(characters)} = {"spiky", "bob", "buns", "cap"}
    /\ characters[1].id = "0-0"
    /\ characters[Len(characters)].id = "13-6"

(***************************************************************************)
(* C12: while the visualizer is shown, in every mode and after any         *)
(* sequence of mode switches, exactly one of the four renderers is mounted *)
(* (and so runs its per-frame update), and it is the renderer of the       *)
(* selected mode.                                                          *)
(***************************************************************************)
C12_ExactlyOneRendererMounted ==
    (appState = "VISUALIZING" /\ analyser) =>
        /\ Cardinality(mountedRenderers) = 1
        /\ mountedRenderers \subseteq
             {"VisualizerOrb", "VisualizerTerrain", "VisualizerCrowd", "VisualizerWall"}
        /\ (visualizerMode = "ORB") = ("VisualizerOrb" \in mountedRenderers)
        /\ (visualizerMode = "TERRAIN") = ("VisualizerTerrain" \in mountedRenderers)
        /\ (visualizerMode = "PARTY") = ("VisualizerCrowd" \in mountedRenderers)
        /\ (visualizerMode = "WALL") = ("VisualizerWall" \in mountedRenderers)

\* the Wall was switched to while recording: one renderer, the Wall
C12_Witness ==
    /\ lastStep.handler = "setVisualizerMode"
    /\ visualizerMode = "WALL"
    /\ mountedRenderers = {"VisualizerWall"}
    /\ Len(encoders) >= 1

(***************************************************************************)
(* C13: when decodeAudioData rejects inside startVisualizer, the failure   *)
(* is reported to the user (one alert), that call creates and starts no    *)
(* playback source, and the app state becomes READY.                       *)
(***************************************************************************)
C13_DecodeFailureReturnsToReady ==
    [][(lastStep'.handler = "decodeRejected" /\ pendingDecodes' = pendingDecodes - 1) =>
          /\ alerts' = alerts + 1
          /\ sources' = sources
          /\ sourceNodeRef' = sourceNodeRef
          /\ appState' = "READY"]_vars

\* the only call made failed to decode: READY, one alert, no source ever made
C13_Witness ==
    /\ lastStep.handler = "decodeRejected"
    /\ appState = "READY"
    /\ alerts = 1
    /\ startedCalls = 1
    /\ sources = <<>>

(***************************************************************************)
(* C16: every encoder is constructed with VP9-in-WebM when the browser     *)
(* supports it and with plain WebM when it does not; a browser without     *)
(* VP9 still gets a recording encoder.                                     *)
(***************************************************************************)
C16_MimeTypeFollowsSupport ==
    \A e \in 1 .. Len(encoders) :
        encoders[e].mimeType =
            IF vp9Supported THEN "video/webm;codecs=vp9" ELSE "video/webm"

\* without VP9 support an encoder was started and records plain WebM
C16_Witness ==
    /\ ~vp9Supported
    /\ isRecording
    /\ mediaRecorderRef # NoEncoder
    /\ encoders[mediaRecorderRef].state = "recording"
    /\ encoders[mediaRecorderRef].mimeType = "video/webm"

\* the step delivers the queued stop task of encoder e
StopDelivered(e) ==
    /\ e \in 1 .. Len(encoders)
    /\ encoders[e].pending # <<>>
    /\ encoders'[e].pending = <<>>
    /\ lastStep'.handler = "onstop"

(***************************************************************************)
(* C17: sessions stay independent under rapid re-toggling: when the stop   *)
(* event of one session's encoder is delivered while another session's     *)
(* encoder is recording, recording stays armed and that encoder keeps      *)
(* recording, and every download holds only segments of its own encoder.   *)
(***************************************************************************)
C17_SessionsIndependent ==
    [][\A e \in 1 .. Len(encoders) :
          StopDelivered(e) =>
              /\ \A f \in 1 .. Len(encoders) :
                    (f # e /\ encoders[f].state = "recording") =>
                        /\ encoders'[f].state = "recording"
                        /\ isRecording' = isRecording
              /\ \A k \in 1 .. Len(downloads') :
                    \A j \in 1 .. Len(downloads'[k].blob) :
                        downloads'[k].blob[j].enc = downloads'[k].enc]_vars

(***************************************************************************)
(* C18: whenever recording is not armed, no encoder is left in the         *)
(* recording state: every path that returns isRecording to false,          *)
(* pressing Back included, stops the session's encoder.                    *)
(***************************************************************************)
C18_NoEncoderLeftRecording ==
    ~isRecording => \A e \in 1 .. Len(encoders) : encoders[e].state # "recording"

\* the update the envelope rule gives a band whose previous impulse is prev,
\* whose bins sum to sum over count bins, with threshold t and the target
\* scaled by tenths/10
EnvelopeRule(prev, sum, count, t, tenths) ==
    LET target == IF sum > t * count
                  THEN (((sum - t * count) * (One \div ((255 - t) * count))) * tenths) \div 10
                  ELSE 0
    IN  Max(0, IF prev * 17 < target * 20 THEN target ELSE prev - One \div 10)

(***************************************************************************)
(* C19: on every Crowd frame each band's new impulse is                    *)
(* max(0, (prev*0.85 < target) ? target : prev - 0.1) with target =        *)
(* (v - T)/(255 - T) if v > T else 0, v the band's mean energy: bass       *)
(* T = 150 over bins [0,4), snare T = 130 over [10,25), high T = 90 over   *)
(* [200,250) with the target scaled by 0.6; a band's update uses only that *)
(* band's previous value and energy.                                       *)
(***************************************************************************)
C19_EnvelopeUpdateRule ==
    [][/\ bounceValues'["bass"] =
            EnvelopeRule(bounceValues["bass"], SumBins(dataArray', 0, 4), 4, 150, 10)
       /\ bounceValues'["snare"] =
            EnvelopeRule(bounceValues["snare"], SumBins(dataArray', 10, 25), 15, 130, 10)
       /\ bounceValues'["high"] =
            EnvelopeRule(bounceValues["high"], SumBins(dataArray', 200, 250), 50, 90, 6)]_vars

\* the three bands have moved apart: bass silent, snare attacked to 1.0 in a
\* frame in which high released one step from its peak of 0.6
C19_Witness ==
    /\ bounceValues["bass"] = 0
    /\ bounceValues["snare"] = One
    /\ bounceValues["high"] = (One * 6) \div 10 - One \div 10
    /\ dataArray[0] = 0 /\ dataArray[10] = 255 /\ dataArray[200] = 0

(***************************************************************************)
(* C20 (as stated): on any frame where a band's impulse decreases, it      *)
(* decreases by exactly 0.1, or to 0 when less than 0.1 remains; it never  *)
(* drops by more than 0.1 in one frame.                                    *)
(***************************************************************************)
C20_FallIsLinear ==
    [][\A b \in Bands :
          bounceValues'[b] < bounceValues[b] =>
              \/ bounceValues'[b] = bounceValues[b] - One \div 10
              \/ bounceValues[b] < One \div 10 /\ bounceValues'[b] = 0]_vars

(***************************************************************************)
(* C20 (amended): on any frame where a band's impulse decreases, either it *)
(* decreases by exactly 0.1 (or to 0 when less than 0.1 remains), or it    *)
(* was set to a target above 0.85 of the previous value; so one frame      *)
(* lowers it by less than 0.15, not by at most 0.1.                        *)
(***************************************************************************)
C20_FallIsStepOrToTarget ==
    [][\A b \in Bands :
          bounceValues'[b] < bounceValues[b] =>
              /\ \/ bounceValues'[b] = bounceValues[b] - One \div 10
                 \/ bounceValues[b] < One \div 10 /\ bounceValues'[b] = 0
                 \/ bounceValues'[b] * 20 > bounceValues[b] * 17
              /\ (bounceValues[b] - bounceValues'[b]) * 20 < 3 * One]_vars

\* the bass impulse fell from 1.0 to the target 6/7 of a slightly lower
\* input in one frame, a drop of more than 0.1
C20_Witness ==
    /\ envBefore["bass"] = One
    /\ bounceValues["bass"] = (One * 6) \div 7
    /\ envBefore["bass"] - bounceValues["bass"] > One \div 10
    /\ dataArray[0] = 240

(***************************************************************************)
(* C21 (as stated): after every impulse update a band's new impulse is     *)
(* greater than or equal to that frame's target for the band; the envelope *)
(* never sits below the current thresholded energy.                        *)
(***************************************************************************)
C21_ImpulseAtLeastTarget ==
    [][\A b \in Bands : bounceValues'[b] >= Target(b, dataArray')]_vars

(***************************************************************************)
(* C21 (amended): after every impulse update a band's new impulse is at    *)
(* least that frame's target, or the band released (0.85 of the previous   *)
(* value is not below the target) and the new value is the previous one    *)
(* less 0.1, clamped at 0; it then sits less than 0.1 below the target,    *)
(* which happens only for targets below 17/30.                             *)
(***************************************************************************)
C21_ImpulseAtLeastTargetOrReleased ==
    [][\A b \in Bands :
          LET target == Target(b, dataArray')
          IN  \/ bounceValues'[b] >= target
              \/ /\ bounceValues[b] * 17 >= target * 20
                 /\ bounceValues'[b] = Max(0, bounceValues[b] - One \div 10)
                 /\ target - bounceValues'[b] < One \div 10
                 /\ target * 30 < One * 17]_vars

\* the bass impulse released from 0.5 to 0.4 on a frame whose bass target
\* is 44/105, above the new value
C21_Witness ==
    /\ envBefore["bass"] = One \div 2
    /\ bounceValues["bass"] = (One * 4) \div 10
    /\ dataArray[0] = 194
    /\ Target("bass", dataArray) > bounceValues["bass"]

(***************************************************************************)
(* C22: on every frame each crowd figure's effective bounce equals         *)
(* max(0, I - delay*0.15), where I is the current impulse of the figure's  *)
(* own reactivity class (bass, snare or high) and delay is the figure's    *)
(* construction-time delay; a figure never uses another class's impulse.   *)
(***************************************************************************)
C22_EffectiveBounceOfOwnClass ==
    \A i \in 1 .. Len(figures) :
        LET I == bounceValues[characters[i].reactivity]
        IN  \* 160/FigureUnit is one impulse unit, 346500/FigureUnit is 0.15/40
            figures[i].effectiveBounce = Max(0, I * 160 - characters[i].delay * 346500)

\* the three impulses differ, and the cast has a figure of every class whose
\* effective bounce is positive and one whose delay has consumed its impulse
C22_Witness ==
    /\ bounceValues["bass"] # bounceValues["snare"]
    /\ bounceValues["snare"] # bounceValues["high"]
    /\ bounceValues["bass"] # bounceValues["high"]
    /\ \A b \in Bands : \E i \in 1 .. Len(figures) :
          characters[i].reactivity = b /\ figures[i].effectiveBounce > 0
    /\ \E i \in 1 .. Len(figures) :
          bounceValues[characters[i].reactivity] > 0 /\ figures[i].effectiveBounce = 0

(***************************************************************************)
(* C23: for every crowd figure on every frame the effective bounce is      *)
(* never negative, so the landing-squash term is always 0; the vertical    *)
(* scale stays in [1, 1.15] and the horizontal scale in [0.925, 1].        *)
(***************************************************************************)
C23_ScaleInRange ==
    \A i \in 1 .. Len(figures) :
        /\ figures[i].effectiveBounce >= 0
        /\ figures[i].squash = 0
        /\ figures[i].scaleY >= FigureUnit
        /\ figures[i].scaleY <= (FigureUnit \div 100) * 115
        /\ figures[i].scaleXZ >= (FigureUnit \div 1000) * 925
        /\ figures[i].scaleXZ <= FigureUnit

\* a frame in which one figure is stretched to the full 1.15 by 0.925 and
\* another, further back, stands at scale 1
C23_Witness ==
    /\ \E i \in 1 .. Len(figures) :
          /\ figures[i].scaleY = (FigureUnit \div 100) * 115
          /\ figures[i].scaleXZ = (FigureUnit \div 1000) * 925
    /\ \E i \in 1 .. Len(figures) :
          /\ bounceValues[characters[i].reactivity] > 0
          /\ figures[i].scaleY = FigureUnit

(***************************************************************************)
(* C25: for every analyzer bin count N, every index read when building the *)
(* Terrain front row (j * floor(0.6*N/80) for j in 0..79) is inside        *)
(* [0, N), and all 80 reads collapse to index 0 when N is too small for a  *)
(* non-zero stride.                                                        *)
(***************************************************************************)
C25_FrontRowReadsInRange ==
    vertexReads.by = "VisualizerTerrain" =>
        /\ DOMAIN vertexReads.reads = 0 .. 79
        /\ \A j \in 0 .. 79 :
              /\ vertexReads.reads[j].index = j * ((binCount * 6) \div 800)
              /\ vertexReads.reads[j].index >= 0
              /\ vertexReads.reads[j].index < binCount
              /\ vertexReads.reads[j].value \in 0 .. 255
              /\ binCount * 6 < 800 => vertexReads.reads[j].index = 0

\* a Terrain frame on the largest analyser, whose last sample reads a bin
\* well past the first thousand
C25_Witness ==
    /\ vertexReads.by = "VisualizerTerrain"
    /\ binCount = 16384
    /\ vertexReads.reads[79].index = 79 * 122
    /\ vertexReads.reads[1].index = 122

(***************************************************************************)
(* C26: on every Orb frame the waveform ring is closed: for every          *)
(* power-of-two time-domain length, vertex 256 reads the same time-domain  *)
(* sample index as vertex 0, and every vertex's sample index is inside     *)
(* [0, length); the ring always has exactly 257 vertices.                  *)
(***************************************************************************)
C26_WaveformRingClosed ==
    vertexReads.by = "VisualizerOrb" =>
        /\ DOMAIN vertexReads.reads = 0 .. 256
        /\ Cardinality(DOMAIN vertexReads.reads) = 257
        /\ vertexReads.reads[256].index = vertexReads.reads[0].index
        /\ vertexReads.reads[256].value = vertexReads.reads[0].value
        /\ \A i \in 0 .. 256 :
              /\ vertexReads.reads[i].index >= 0
              /\ vertexReads.reads[i].index < vertexReads.length
              /\ vertexReads.reads[i].value \in 0 .. 255

\* an Orb frame on a 2048-sample square wave: the stride is 8, the vertices
\* read both levels, and the last vertex has wrapped to sample 0
C26_Witness ==
    /\ vertexReads.by = "VisualizerOrb"
    /\ vertexReads.length = 2048
    /\ vertexReads.reads[1].index = 8
    /\ vertexReads.reads[255].index = 2040
    /\ vertexReads.reads[256].index = 0
    /\ vertexReads.reads[0].value = 255
    /\ vertexReads.reads[16].value = 0

\* the sources that are playing
Playing == {k \in 1 .. Len(sources) : sources[k] = "playing"}

(***************************************************************************)
(* C27: in every reachable state, including interleavings of overlapping   *)
(* asynchronous startVisualizer calls with Back and Change File, at most   *)
(* one audio source is playing, and a source is playing only while the app *)
(* state is VISUALIZING.                                                   *)
(***************************************************************************)
C27_OneSourceOnlyWhileVisualizing ==
    /\ Cardinality(Playing) <= 1
    /\ Playing # {} => appState = "VISUALIZING"

\* next lies between prev and target, ends included
Between(prev, next, target) ==
    \/ prev <= next /\ next <= target
    \/ target <= next /\ next <= prev

(***************************************************************************)
(* C24: every lerp-smoothed value (Orb central scale and Orb bar heights   *)
(* with factor 0.3, Terrain vertex heights with factor 0.4, Wall bass      *)
(* uniform with factor 0.2) never overshoots: after each frame it lies     *)
(* between its previous value and that frame's target, inclusive.          *)
(***************************************************************************)
C24_LerpNeverOvershoots ==
    [][/\ orbFed' # orbFed =>
            /\ Between(sphereScale, sphereScale',
                       120000000 + ((SumBins(dataArray', 0, 10) * 180000) \div 2550) * 1000)
            /\ \A i \in 0 .. 63 :
                  Between(barScale[i], barScale'[i],
                          20000000 + dataArray'[(i * 40) \div 64] * (600000000 \div 255))
       /\ terrainFrames' # terrainFrames =>
            \A i \in 0 .. 44 : \A j \in 0 .. 79 :
                Between(linePositions[i][j], linePositions'[i][j], rowData'[i][j])
       /\ wallFrames' # wallFrames =>
            Between(uniformBass, uniformBass',
                    SumBins(dataArray', 0, 10) * (100000000 \div 2550))]_vars

\* each of the four values has moved strictly inside its interval, up and
\* down: the sphere and a bar of the Orb, a Terrain vertex, the Wall uniform
C24_Witness ==
    \/ /\ Len(orbFed) >= 2
       /\ sphereScale > 120000000 /\ sphereScale < 300000000
       /\ barScale[0] > 20000000 /\ barScale[0] < 620000000
       /\ barScale[63] < 100000000 /\ barScale[63] > 20000000
       /\ dataArray[0] = 0
    \/ /\ terrainFrames >= 2
       /\ rowData[0][40] = 0
       /\ linePositions[0][40] > 0
       /\ linePositions[1][40] > 0 /\ linePositions[1][40] < rowData[1][40]
    \/ /\ wallFrames >= 2
       /\ dataArray[0] = 0
       /\ uniformBass > 0 /\ uniformBass < 100000000

(***************************************************************************)
(* C14: for every analyser bin count, every frequency read made by the     *)
(* Crowd band sums and by the Orb bars uses an index inside the snapshot   *)
(* and so yields a byte, never the value of a read past the end.           *)
(***************************************************************************)
C14_ReadsInsideSnapshot ==
    \A i \in DOMAIN frameReads.values :
        /\ i >= 0 /\ i < binCount
        /\ frameReads.values[i] \in 0 .. 255

====
